---- MODULE Spec2Model ----
(***************************************************************************)
(* A model of zerotable: the ZQL lexer (src/zql/parser/lexer.rs) and the   *)
(* document engine (src/engine.rs).                                        *)
(*                                                                         *)
(* A character is a one-character string; a text is a sequence of          *)
(* characters.  The backtick cannot be written inside a TLA+ string, so    *)
(* the name BT stands for it.                                              *)
(***************************************************************************)
EXTENDS Integers, Sequences, FiniteSets, TLC

VARIABLES
  input,    \* the text handed to Lexer::new
  iter,     \* Lexer.iter: the characters not yet consumed
  line,     \* Lexer.line
  col,      \* Lexer.col
  out,      \* the items Iterator::next has yielded so far, in order
  ended,    \* TRUE once Iterator::next has returned None
  store,    \* the committed contents of the `primary` keyspace: key -> bytes
  tx,       \* per caller, the write transaction it has open, if any
  last,     \* the latest call of an Engine method that returned, and its result
  created,  \* history: per key, the data of the latest successful create
            \* that no successful delete has followed
  kin,      \* the ids handed to the functions of keys.rs
  kout      \* the latest call of a function of keys.rs and what it returned

lexvars == <<input, iter, line, col, out, ended>>

enginevars == <<store, tx, last, created>>

keysvars == <<kin, kout>>

vars ==
  <<input, iter, line, col, out, ended, store, tx, last, created, kin, kout>>

(***************************************************************************)
(* Characters                                                              *)
(***************************************************************************)
BT == "BT"
DQ == "\""
BS == "\\"
NL == "\n"
TAB == "\t"
CR == "\r"
SP == " "

Lower ==
  {"a","b","c","d","e","f","g","h","i","j","k","l","m",
   "n","o","p","q","r","s","t","u","v","w","x","y","z"}

Upper == {"A","E","H","R","W"}

AsciiDigit == {"0","1","2","3","4","5","6","7","8","9"}

\* char::is_whitespace
Whitespace == {SP, NL, TAB, CR}

\* char::is_alphabetic
Alphabetic == Lower \cup Upper

\* char::is_alphanumeric
Alphanumeric == Alphabetic \cup AsciiDigit

Symbols ==
  {":", "(", ")", "{", "}", "[", "]", ",", ".", "=", ">", "<", "!",
   "+", "*", "/", "%", "-"}

\* characters no scanner accepts at the start of a token
Stray == {"#", "@", BS, "?"}

AllChars ==
  Alphanumeric \cup Whitespace \cup Symbols \cup Stray \cup {"_", "$", "^", BT, DQ}

is_whitespace == Whitespace
is_ascii_digit == AsciiDigit
ident_char == Alphanumeric \cup {"_"}
\* the path characters without the dot of nested paths
path_char_no_dot == Alphanumeric \cup {"_"}

path_char == Alphanumeric \cup {"_", "."}
not_newline == AllChars \ {NL}

(***************************************************************************)
(* Keywords                                                                *)
(***************************************************************************)
Keyword ==
  {"And", "Or", "Not", "In", "Between", "Like", "Regex", "Is", "Exists",
   "Contains", "ContainsAny", "ContainsAll", "Where", "Order", "Skip",
   "Limit", "Returning", "Asc", "Desc", "True", "False", "Null"}

NoKeyword == "Err"

\* impl TryFrom<&str> for Keyword
KeywordTryFrom(s) ==
  CASE s = <<"a","n","d">> -> "And"
    [] s = <<"o","r">> -> "Or"
    [] s = <<"n","o","t">> -> "Not"
    [] s = <<"i","n">> -> "In"
    [] s = <<"b","e","t","w","e","e","n">> -> "Between"
    [] s = <<"l","i","k","e">> -> "Like"
    [] s = <<"r","e","g","e","x">> -> "Regex"
    [] s = <<"i","s">> -> "Is"
    [] s = <<"e","x","i","s","t","s">> -> "Exists"
    [] s = <<"c","o","n","t","a","i","n","s">> -> "Contains"
    [] s = <<"c","o","n","t","a","i","n","s","A","n","y">> -> "ContainsAny"
    [] s = <<"c","o","n","t","a","i","n","s","A","l","l">> -> "ContainsAll"
    [] s = <<"w","h","e","r","e">> -> "Where"
    [] s = <<"o","r","d","e","r">> -> "Order"
    [] s = <<"s","k","i","p">> -> "Skip"
    [] s = <<"l","i","m","i","t">> -> "Limit"
    [] s = <<"r","e","t","u","r","n","i","n","g">> -> "Returning"
    [] s = <<"a","s","c">> -> "Asc"
    [] s = <<"d","e","s","c">> -> "Desc"
    [] s = <<"t","r","u","e">> -> "True"
    [] s = <<"f","a","l","s","e">> -> "False"
    [] s = <<"n","u","l","l">> -> "Null"
    [] OTHER -> NoKeyword

\* impl fmt::Display for Keyword
KeywordDisplay(k) ==
  CASE k = "And" -> <<"a","n","d">>
    [] k = "Or" -> <<"o","r">>
    [] k = "Not" -> <<"n","o","t">>
    [] k = "In" -> <<"i","n">>
    [] k = "Between" -> <<"b","e","t","w","e","e","n">>
    [] k = "Like" -> <<"l","i","k","e">>
    [] k = "Regex" -> <<"r","e","g","e","x">>
    [] k = "Is" -> <<"i","s">>
    [] k = "Exists" -> <<"e","x","i","s","t","s">>
    [] k = "Contains" -> <<"c","o","n","t","a","i","n","s">>
    [] k = "ContainsAny" -> <<"c","o","n","t","a","i","n","s","A","n","y">>
    [] k = "ContainsAll" -> <<"c","o","n","t","a","i","n","s","A","l","l">>
    [] k = "Where" -> <<"w","h","e","r","e">>
    [] k = "Order" -> <<"o","r","d","e","r">>
    [] k = "Skip" -> <<"s","k","i","p">>
    [] k = "Limit" -> <<"l","i","m","i","t">>
    [] k = "Returning" -> <<"r","e","t","u","r","n","i","n","g">>
    [] k = "Asc" -> <<"a","s","c">>
    [] k = "Desc" -> <<"d","e","s","c">>
    [] k = "True" -> <<"t","r","u","e">>
    [] k = "False" -> <<"f","a","l","s","e">>
    [] k = "Null" -> <<"n","u","l","l">>

(***************************************************************************)
(* Tokens and errors                                                       *)
(***************************************************************************)
\* the Token variants that carry a String
Text(type, s) == [tag |-> "Token", type |-> type, text |-> s]

\* Token::Keyword(k)
KeywordToken(k) == [tag |-> "Token", type |-> "Keyword", kw |-> k]

\* the Token variants without payload
Punct(type) == [tag |-> "Token", type |-> type]

PunctType ==
  {"Equal", "NotEqual", "GreaterThan", "GreaterThanOrEqual", "LessThan",
   "LessThanOrEqual", "Plus", "Minus", "Asterisk", "Slash", "Percent",
   "ColonColon", "Colon", "OpenParen", "CloseParen", "OpenBrace",
   "CloseBrace", "OpenBracket", "CloseBracket", "Comma", "Dot"}

\* impl fmt::Display for Token
TokenDisplay(t) ==
  CASE t.type = "Number" -> t.text
    [] t.type = "String" -> <<DQ>> \o t.text \o <<DQ>>
    [] t.type = "Ident" -> t.text
    [] t.type = "Keyword" -> KeywordDisplay(t.kw)
    [] t.type = "Variable" -> <<"$">> \o t.text
    [] t.type = "ParentRef" -> <<"^">> \o t.text
    [] t.type = "GrandparentRef" -> <<"^", "^">> \o t.text
    [] t.type = "Equal" -> <<"=">>
    [] t.type = "NotEqual" -> <<"!", "=">>
    [] t.type = "GreaterThan" -> <<">">>
    [] t.type = "GreaterThanOrEqual" -> <<">", "=">>
    [] t.type = "LessThan" -> <<"<">>
    [] t.type = "LessThanOrEqual" -> <<"<", "=">>
    [] t.type = "Plus" -> <<"+">>
    [] t.type = "Minus" -> <<"-">>
    [] t.type = "Asterisk" -> <<"*">>
    [] t.type = "Slash" -> <<"/">>
    [] t.type = "Percent" -> <<"%">>
    [] t.type = "ColonColon" -> <<":", ":">>
    [] t.type = "Colon" -> <<":">>
    [] t.type = "OpenParen" -> <<"(">>
    [] t.type = "CloseParen" -> <<")">>
    [] t.type = "OpenBrace" -> <<"{">>
    [] t.type = "CloseBrace" -> <<"}">>
    [] t.type = "OpenBracket" -> <<"[">>
    [] t.type = "CloseBracket" -> <<"]">>
    [] t.type = "Comma" -> <<",">>
    [] t.type = "Dot" -> <<".">>

\* LexError(String): the message is modelled by the parts format! puts in it.
\* A message with a position has the fields line and col; the others do not.
LexErrorAt(msg, c, l, k) ==
  [tag |-> "LexError", msg |-> msg, ch |-> c, line |-> l, col |-> k]

LexErrorChar(msg, c) == [tag |-> "LexError", msg |-> msg, ch |-> c]

LexErrorMsg(msg) == [tag |-> "LexError", msg |-> msg]

\* Ok(None)
NoToken == [tag |-> "None"]

(***************************************************************************)
(* The lexer.  L is the Lexer struct: [iter, line, col].  A scanner        *)
(* returns [lex |-> the Lexer afterwards, res |-> its Result].             *)
(***************************************************************************)
\* Lexer::new
new(text) == [iter |-> text, line |-> 1, col |-> 1]

NoChar == "None"

\* Lexer::peek
peek(L) == IF L.iter = <<>> THEN NoChar ELSE Head(L.iter)

\* the clone of the iterator advanced by one character, then peeked
peek_ahead(L) == IF Len(L.iter) < 2 THEN NoChar ELSE L.iter[2]

\* next_char that counts a newline as one more column of the same row
next_char_no_reset(L) ==
  IF L.iter = <<>> THEN L
  ELSE IF Head(L.iter) = NL
       THEN [iter |-> Tail(L.iter), line |-> L.line + 1, col |-> L.col + 1]
       ELSE [iter |-> Tail(L.iter), line |-> L.line, col |-> L.col + 1]

\* Lexer::next_char
next_char(L) ==
  IF L.iter = <<>> THEN L
  ELSE IF Head(L.iter) = NL
       THEN [iter |-> Tail(L.iter), line |-> L.line + 1, col |-> 1]
       ELSE [iter |-> Tail(L.iter), line |-> L.line, col |-> L.col + 1]

\* Lexer::next_if: TRUE when a character passing the predicate is next
next_if_some(L, pred) == L.iter # <<>> /\ Head(L.iter) \in pred

\* Lexer::next_if
next_if(L, pred) == IF next_if_some(L, pred) THEN next_char(L) ELSE L

RECURSIVE take_while(_, _)
\* Lexer::take_while
take_while(L, pred) ==
  IF next_if_some(L, pred)
  THEN LET r == take_while(next_if(L, pred), pred)
       IN  [lex |-> r.lex, s |-> <<Head(L.iter)>> \o r.s]
  ELSE [lex |-> L, s |-> <<>>]

RECURSIVE skip_whitespace(_)
\* Lexer::skip_whitespace
skip_whitespace(L) ==
  LET L1 == take_while(L, is_whitespace).lex
  IN  IF peek(L1) = "-" /\ peek_ahead(L1) = "-"
      THEN skip_whitespace(take_while(next_char(next_char(L1)), not_newline).lex)
      ELSE L1

\* scan_fraction without the look past the dot: any `.` after the digits is
\* taken into the number
scan_fraction_greedy(L, s) ==
  IF peek(L) = "."
  THEN LET f == take_while(next_char(L), is_ascii_digit)
       IN  [lex |-> f.lex, res |-> Text("Number", s \o <<".">> \o f.s)]
  ELSE [lex |-> L, res |-> Text("Number", s)]

\* the fractional part shared by scan_number and scan_negative_number
scan_fraction(L, s) ==
  IF peek(L) = "." /\ peek_ahead(L) \in is_ascii_digit
  THEN LET f == take_while(next_char(L), is_ascii_digit)
       IN  [lex |-> f.lex, res |-> Text("Number", s \o <<".">> \o f.s)]
  ELSE [lex |-> L, res |-> Text("Number", s)]

\* Lexer::scan_number
scan_number(L) ==
  LET d == take_while(L, is_ascii_digit)
  IN  scan_fraction(d.lex, d.s)

\* Lexer::scan_negative_number
scan_negative_number(L) ==
  LET d == take_while(L, is_ascii_digit)
  IN  scan_fraction(d.lex, <<"-">> \o d.s)

\* the first match of scan_symbol, for the one-character tokens
SymbolType(c) ==
  CASE c = ":" -> "Colon"
    [] c = "(" -> "OpenParen"
    [] c = ")" -> "CloseParen"
    [] c = "{" -> "OpenBrace"
    [] c = "}" -> "CloseBrace"
    [] c = "[" -> "OpenBracket"
    [] c = "]" -> "CloseBracket"
    [] c = "," -> "Comma"
    [] c = "." -> "Dot"
    [] c = "=" -> "Equal"
    [] c = ">" -> "GreaterThan"
    [] c = "<" -> "LessThan"
    [] c = "+" -> "Plus"
    [] c = "*" -> "Asterisk"
    [] c = "/" -> "Slash"
    [] c = "%" -> "Percent"
    [] c = "-" -> "Minus"
    [] OTHER -> "unexpected"

\* extend_symbol that knows `::` only: `>` and `<` are never extended
extend_symbol_colon_only(L, type) ==
  IF type = "Colon" /\ peek(L) = ":"
  THEN [lex |-> next_char(L), res |-> Punct("ColonColon")]
  ELSE [lex |-> L, res |-> Punct(type)]

\* extend_symbol with the second match left out
extend_symbol_never(L, type) == [lex |-> L, res |-> Punct(type)]

\* the second match of scan_symbol: a one-character token extended to two
extend_symbol(L, type) ==
  CASE type = "Colon" /\ peek(L) = ":" ->
         [lex |-> next_char(L), res |-> Punct("ColonColon")]
    [] type = "GreaterThan" /\ peek(L) = "=" ->
         [lex |-> next_char(L), res |-> Punct("GreaterThanOrEqual")]
    [] type = "LessThan" /\ peek(L) = "=" ->
         [lex |-> next_char(L), res |-> Punct("LessThanOrEqual")]
    [] OTHER -> [lex |-> L, res |-> Punct(type)]

\* scan_bang taking a lone `!` for `!=`
scan_bang_lenient(L) ==
  IF peek(L) = "="
  THEN [lex |-> next_char(L), res |-> Punct("NotEqual")]
  ELSE [lex |-> L, res |-> Punct("NotEqual")]

\* the `!` arm of scan_symbol; L is the Lexer after the `!` was consumed
scan_bang(L) ==
  IF peek(L) = "="
  THEN [lex |-> next_char(L), res |-> Punct("NotEqual")]
  ELSE [lex |-> L,
        res |-> LexErrorAt("unexpected character (did you mean '!='?)",
                           "!", L.line, L.col - 1)]

\* scan_minus leaving the sign to the parser: never a negative number
scan_minus_never_folds(L) == extend_symbol(L, "Minus")

\* the `-` arm of scan_symbol; L is the Lexer after the `-` was consumed
scan_minus(L) ==
  IF peek(L) \in is_ascii_digit
  THEN scan_negative_number(L)
  ELSE extend_symbol(L, "Minus")

\* scan_symbol reporting the column after the unexpected character
scan_symbol_col_after(L0) ==
  IF L0.iter = <<>> THEN [lex |-> L0, res |-> NoToken]
  ELSE
    LET c == Head(L0.iter)
        L == next_char(L0)
    IN  CASE c = "!" -> scan_bang(L)
          [] c = "-" -> scan_minus(L)
          [] SymbolType(c) = "unexpected" ->
               [lex |-> L,
                res |-> LexErrorAt("unexpected character", c, L.line, L.col)]
          [] OTHER -> extend_symbol(L, SymbolType(c))

\* Lexer::scan_symbol
scan_symbol(L0) ==
  IF L0.iter = <<>> THEN [lex |-> L0, res |-> NoToken]
  ELSE
    LET c == Head(L0.iter)
        L == next_char(L0)
    IN  CASE c = "!" -> scan_bang(L)
          [] c = "-" -> scan_minus(L)
          [] SymbolType(c) = "unexpected" ->
               [lex |-> L,
                res |-> LexErrorAt("unexpected character", c, L.line, L.col - 1)]
          [] OTHER -> extend_symbol(L, SymbolType(c))

\* the escapes scan_string accepts, and the character each stands for
EscapeChars == {DQ, BS, "n", "t", "r"}

\* the escapes left as they are written
Unescape_raw(c) == c

Unescape(c) ==
  CASE c = DQ -> DQ
    [] c = BS -> BS
    [] c = "n" -> NL
    [] c = "t" -> TAB
    [] c = "r" -> CR

RECURSIVE scan_string_loop(_, _)
\* the loop of scan_string; s is the literal collected so far
scan_string_loop(L, s) ==
  LET c == peek(L)
      L1 == next_char(L)
      e == peek(L1)
      L2 == next_char(L1)
  IN  CASE c = NoChar ->
             [lex |-> L1, res |-> LexErrorMsg("unterminated string literal")]
        [] c = DQ -> [lex |-> L1, res |-> Text("String", s)]
        [] c = BS /\ e = NoChar ->
             [lex |-> L2, res |-> LexErrorMsg("unterminated string escape")]
        [] c = BS /\ e \in EscapeChars ->
             scan_string_loop(L2, Append(s, Unescape(e)))
        [] c = BS ->
             [lex |-> L2, res |-> LexErrorChar("invalid string escape", e)]
        [] OTHER -> scan_string_loop(L1, Append(s, c))

\* Lexer::scan_string
scan_string(L) == scan_string_loop(next_char(L), <<>>)

\* scan_variable that accepts a `$` with no name after it
scan_variable_allows_empty(L) ==
  LET n == take_while(next_char(L), ident_char)
  IN  [lex |-> n.lex, res |-> Text("Variable", n.s)]

\* Lexer::scan_variable
scan_variable(L) ==
  LET n == take_while(next_char(L), ident_char)
  IN  IF n.s = <<>>
      THEN [lex |-> n.lex, res |-> LexErrorMsg("expected variable name after $")]
      ELSE [lex |-> n.lex, res |-> Text("Variable", n.s)]

\* Lexer::scan_parent_ref
scan_parent_ref(L) ==
  LET L1 == next_char(L)
      is_grandparent == peek(L1) = "^"
      L2 == IF is_grandparent THEN next_char(L1) ELSE L1
      n == take_while(L2, path_char)
  IN  IF n.s = <<>>
      THEN [lex |-> n.lex, res |-> LexErrorMsg("expected field name after ^")]
      ELSE IF is_grandparent
           THEN [lex |-> n.lex, res |-> Text("GrandparentRef", n.s)]
           ELSE [lex |-> n.lex, res |-> Text("ParentRef", n.s)]

RECURSIVE scan_quoted_ident_loop(_, _)
\* the loop of scan_quoted_ident; name is the identifier collected so far
scan_quoted_ident_loop(L, name) ==
  LET c == peek(L)
      L1 == next_char(L)
  IN  CASE c = NoChar ->
             [lex |-> L1, res |-> LexErrorMsg("unterminated quoted identifier")]
        [] c = BT ->
             IF name = <<>>
             THEN [lex |-> L1, res |-> LexErrorMsg("empty quoted identifier")]
             ELSE [lex |-> L1, res |-> Text("Ident", name)]
        [] OTHER -> scan_quoted_ident_loop(L1, Append(name, c))

\* scan_quoted_ident without the check for an empty name
scan_quoted_ident_unchecked(L) ==
  LET r == scan_quoted_ident_loop(next_char(L), <<>>)
  IN  IF r.res = LexErrorMsg("empty quoted identifier")
      THEN [lex |-> r.lex, res |-> Text("Ident", <<>>)]
      ELSE r

\* scan_quoted_ident with the keyword lookup of scan_ident_or_keyword
scan_quoted_ident_keyword(L) ==
  LET r == scan_quoted_ident_loop(next_char(L), <<>>)
  IN  IF r.res.tag = "Token" /\ KeywordTryFrom(r.res.text) # NoKeyword
      THEN [lex |-> r.lex, res |-> KeywordToken(KeywordTryFrom(r.res.text))]
      ELSE r

\* Lexer::scan_quoted_ident
scan_quoted_ident(L) == scan_quoted_ident_loop(next_char(L), <<>>)

\* scan_ident_or_keyword that takes letters only into the word
scan_ident_or_keyword_letters(L) ==
  LET n == take_while(L, Alphabetic)
  IN  IF n.s = <<>>
      THEN [lex |-> next_char(L), res |-> Text("Ident", <<Head(L.iter)>>)]
      ELSE IF KeywordTryFrom(n.s) # NoKeyword
      THEN [lex |-> n.lex, res |-> KeywordToken(KeywordTryFrom(n.s))]
      ELSE [lex |-> n.lex, res |-> Text("Ident", n.s)]

\* Lexer::scan_ident_or_keyword
scan_ident_or_keyword(L) ==
  LET n == take_while(L, ident_char)
  IN  IF KeywordTryFrom(n.s) # NoKeyword
      THEN [lex |-> n.lex, res |-> KeywordToken(KeywordTryFrom(n.s))]
      ELSE [lex |-> n.lex, res |-> Text("Ident", n.s)]

\* the match of Lexer::scan on the peeked character
dispatch(L) ==
  LET c == peek(L)
  IN  CASE c = NoChar -> [lex |-> L, res |-> NoToken]
        [] c = DQ -> scan_string(L)
        [] c = "$" -> scan_variable(L)
        [] c = "^" -> scan_parent_ref(L)
        [] c = BT -> scan_quoted_ident(L)
        [] c \in AsciiDigit -> scan_number(L)
        [] c \in Alphabetic \cup {"_"} -> scan_ident_or_keyword(L)
        [] OTHER -> scan_symbol(L)

\* Lexer::scan
scan(L) == dispatch(skip_whitespace(L))

(***************************************************************************)
(* The texts lexed                                                         *)
(***************************************************************************)
MaxLen == 3
NumLen == MaxLen + 2

\* every text of at most n characters of the alphabet A
TextsOver(A, n) == UNION {[1..k -> A] : k \in 0..n}

\* the characters of the exhaustive texts
Sigma ==
  {"1", "a", ".", "-", "!", "=", BT, DQ, BS, "$", "^", SP, NL, ":", ">", "#", "_"}

\* the characters of the longer texts, around numbers
NumSigma == {"1", ".", "-", "a", SP, NL}

PunctTokens == {Punct(type) : type \in PunctType}
KeywordTokens == {KeywordToken(k) : k \in Keyword}

Examples ==
  {<<"1","0",".","f","i","e","l","d">>,
   <<"1","0",".","5">>,
   <<"W","H","E","R","E">>,
   <<"c","o","n","t","a","i","n","s","a","n","y">>,
   <<"o","r","d","e","r","_","b","y">>,
   <<">","=","=">>, <<"<","=","=">>, <<":",":",":">>, <<"!","=","=">>,
   <<DQ,"a",BS,"n",BS,"t",BS,"r",BS,BS,BS,DQ,DQ>>,
   <<DQ,BS,"a",DQ,"b">>,
   <<DQ,"a",BS>>,
   <<"^","a",".","b","1",SP,"^","^","_","c">>,
   <<"$","x","_","1",",","$">>,
   <<"-","-",SP,"a",NL,SP,SP,"@","!">>,
   <<"a",NL,TAB,"?",CR,"#">>,
   <<"(","a","+","1",")","*","[","2","]","/","{","3","}","%","4","<","5">>}

\* the characters of string literals, of skipped text and of references
StrSigma == {DQ, BS, "n", "a"}
SkipSigma == {SP, NL, "-", "#"}
RefSigma == {"^", "$", "a", ".", "_"}

Inputs ==
  TextsOver(Sigma, MaxLen) \cup TextsOver(NumSigma, NumLen) \cup Examples
    \cup TextsOver(StrSigma, NumLen) \cup TextsOver(SkipSigma, NumLen)
    \cup TextsOver(RefSigma, NumLen)
    \cup {TokenDisplay(t) : t \in PunctTokens \cup KeywordTokens}
    \cup {<<BT>> \o KeywordDisplay(k) \o <<BT>> : k \in Keyword}
    \cup {KeywordDisplay(k) \o <<c>> : k \in Keyword, c \in {"_", "1", "s"}}

(***************************************************************************)
(* The lexer as an iterator                                                *)
(***************************************************************************)
\* Engine::open on a fresh directory: an empty keyspace, nothing in flight
EngineIdle ==
  /\ store = <<>>
  /\ tx = [t \in {"t1", "t2"} |-> [pc |-> "idle"]]
  /\ last = [op |-> "open"]
  /\ created = <<>>

\* no function of keys.rs has been called
KeysIdle ==
  /\ kin = [c1 |-> <<>>, d1 |-> <<>>, c2 |-> <<>>, d2 |-> <<>>]
  /\ kout = [op |-> "none"]

LexInit ==
  /\ EngineIdle
  /\ KeysIdle
  /\ input \in Inputs
  /\ iter = new(input).iter
  /\ line = new(input).line
  /\ col = new(input).col
  /\ out = <<>>
  /\ ended = FALSE

\* impl Iterator for Lexer: one call of next.  A call after None has been
\* returned finds the iterator empty and returns None again, changing nothing.
next ==
  /\ ~ended
  /\ LET r == scan([iter |-> iter, line |-> line, col |-> col])
     IN  /\ iter' = r.lex.iter
         /\ line' = r.lex.line
         /\ col' = r.lex.col
         /\ IF r.res = NoToken
            THEN ended' = TRUE /\ out' = out
            ELSE ended' = FALSE /\ out' = Append(out, r.res)
  /\ UNCHANGED input
  /\ UNCHANGED <<enginevars, keysvars>>

LexNext == next

LexSpec == LexInit /\ [][LexNext]_vars

(***************************************************************************)
(* Storage keys (src/keys.rs).  An id is a sequence of bytes.              *)
(***************************************************************************)
MAX_ID_LENGTH == 1500
SEPARATOR == 0
SLASH == 47

NoKeyError == "Ok"

\* the bytes of a sequence
Bytes(id) == {id[i] : i \in 1..Len(id)}

\* validate with the slash looked for before the null byte
validate_slash_first(id) ==
  IF id = <<>> THEN [err |-> "EmptyId"]
  ELSE IF SLASH \in Bytes(id) THEN [err |-> "ContainsSlash"]
  ELSE IF SEPARATOR \in Bytes(id) THEN [err |-> "ContainsNullByte"]
  ELSE IF Len(id) > MAX_ID_LENGTH
    THEN [err |-> "TooLong", len |-> Len(id), max |-> MAX_ID_LENGTH]
  ELSE [err |-> NoKeyError]

\* keys::validate: the four checks in the order of the code, the first that
\* fails returning its error
validate(id) ==
  LET bytes == Bytes(id)
  IN  IF id = <<>> THEN [err |-> "EmptyId"]
      ELSE IF SEPARATOR \in bytes THEN [err |-> "ContainsNullByte"]
      ELSE IF SLASH \in bytes THEN [err |-> "ContainsSlash"]
      ELSE IF Len(id) > MAX_ID_LENGTH
        THEN [err |-> "TooLong", len |-> Len(id), max |-> MAX_ID_LENGTH]
      ELSE [err |-> NoKeyError]

\* encode without the separator between the two ids
encode_no_separator(collection_id, doc_id) ==
  IF validate(collection_id).err # NoKeyError THEN validate(collection_id)
  ELSE IF validate(doc_id).err # NoKeyError THEN validate(doc_id)
  ELSE [err |-> NoKeyError, key |-> collection_id \o doc_id]

\* keys::encode
encode(collection_id, doc_id) ==
  LET collection_ok == validate(collection_id)
      doc_ok == validate(doc_id)
  IN  IF collection_ok.err # NoKeyError THEN collection_ok
      ELSE IF doc_ok.err # NoKeyError THEN doc_ok
      ELSE [err |-> NoKeyError,
            key |-> collection_id \o <<SEPARATOR>> \o doc_id]

\* std::str::from_utf8(..).ok() on the bytes of the model: ASCII bytes are
\* valid UTF-8 (bytes of 128 and more are not among the ids of the model)
from_utf8_ok(bytes) == \A i \in 1..Len(bytes) : bytes[i] < 128

\* decode that leaves the separator at the head of the document id
decode_keeps_separator(key) ==
  LET at == {i \in 1..Len(key) : key[i] = SEPARATOR}
      pos == CHOOSE i \in at : \A j \in at : i <= j
  IN  IF at = {} THEN [some |-> FALSE]
      ELSE [some |-> TRUE,
            collection_id |-> SubSeq(key, 1, pos - 1),
            doc_id |-> SubSeq(key, pos, Len(key))]

\* keys::decode
decode(key) ==
  LET at == {i \in 1..Len(key) : key[i] = SEPARATOR}
      pos == CHOOSE i \in at : \A j \in at : i <= j
  IN  IF at = {} THEN [some |-> FALSE]
      ELSE IF ~from_utf8_ok(SubSeq(key, 1, pos - 1)) THEN [some |-> FALSE]
      ELSE IF ~from_utf8_ok(SubSeq(key, pos + 1, Len(key))) THEN [some |-> FALSE]
      ELSE [some |-> TRUE,
            collection_id |-> SubSeq(key, 1, pos - 1),
            doc_id |-> SubSeq(key, pos + 1, Len(key))]

\* collection_prefix without the separator at its end
collection_prefix_no_separator(collection_id) ==
  IF validate(collection_id).err # NoKeyError THEN validate(collection_id)
  ELSE [err |-> NoKeyError, prefix |-> collection_id]

\* keys::collection_prefix
collection_prefix(collection_id) ==
  IF validate(collection_id).err # NoKeyError THEN validate(collection_id)
  ELSE [err |-> NoKeyError, prefix |-> collection_id \o <<SEPARATOR>>]

\* the order of Vec<u8>: a < b, bytewise and then by length
Less(a, b) ==
  \E i \in 1..(Len(a) + 1) :
    /\ i <= Len(b)
    /\ \A j \in 1..(i - 1) : a[j] = b[j]
    /\ i = Len(a) + 1 \/ a[i] < b[i]

\* key.starts_with(prefix)
starts_with(key, prefix) ==
  Len(prefix) <= Len(key) /\ SubSeq(key, 1, Len(prefix)) = prefix

(***************************************************************************)
(* The functions of keys.rs applied to ids                                 *)
(***************************************************************************)
MaxIdLen == 2

\* the bytes of valid ids, and the bytes of all ids
ValidBytes == {97, 98}
AnyBytes == {SEPARATOR, SLASH, 97, 98}

\* the id of n bytes b, as a tuple
Repeat(b, n) == SubSeq([i \in 1..n |-> b], 1, n)

\* the id of n bytes `a` with the byte b at its end
EndingIn(b, n) == SubSeq([i \in 1..n |-> IF i = n THEN b ELSE 97], 1, n)

\* ids around the maximum length
LongIds ==
  {Repeat(97, MAX_ID_LENGTH), Repeat(97, MAX_ID_LENGTH + 1),
   EndingIn(SLASH, MAX_ID_LENGTH + 1), EndingIn(SEPARATOR, MAX_ID_LENGTH + 1),
   <<>>, <<97>>, <<SLASH>>}

KeyInputs ==
  {[c1 |-> a, d1 |-> b, c2 |-> c, d2 |-> d] :
     a \in TextsOver(ValidBytes, MaxIdLen), b \in TextsOver(ValidBytes, MaxIdLen),
     c \in TextsOver(ValidBytes, MaxIdLen), d \in TextsOver(ValidBytes, MaxIdLen)}
  \cup {[c1 |-> a, d1 |-> b, c2 |-> <<97>>, d2 |-> <<97>>] :
          a \in TextsOver(AnyBytes, MaxIdLen), b \in TextsOver(AnyBytes, MaxIdLen)}
  \cup {[c1 |-> a, d1 |-> b, c2 |-> <<97>>, d2 |-> <<97>>] :
          a \in LongIds, b \in LongIds}

KeysInit ==
  /\ EngineIdle
  /\ kin \in KeyInputs
  /\ kout = [op |-> "none"]
  /\ input = <<>>
  /\ iter = <<>>
  /\ line = 1
  /\ col = 1
  /\ out = <<>>
  /\ ended = FALSE

\* encode called on the two pairs of ids
encode_call ==
  /\ kout.op = "none"
  /\ kout' = [op |-> "encode",
              k1 |-> encode(kin.c1, kin.d1), k2 |-> encode(kin.c2, kin.d2)]
  /\ UNCHANGED <<kin, lexvars, enginevars>>

\* decode called on the key of the first pair
decode_call ==
  /\ kout.op = "encode"
  /\ kout.k1.err = NoKeyError
  /\ kout' = [op |-> "decode", k1 |-> kout.k1, pair |-> decode(kout.k1.key)]
  /\ UNCHANGED <<kin, lexvars, enginevars>>

\* collection_prefix called on the first collection id
prefix_call ==
  /\ kout.op = "encode"
  /\ kout' = [op |-> "prefix", k2 |-> kout.k2,
              prefix |-> collection_prefix(kin.c1)]
  /\ UNCHANGED <<kin, lexvars, enginevars>>

KeysNext == encode_call \/ decode_call \/ prefix_call

KeysSpec == KeysInit /\ [][KeysNext]_vars

(***************************************************************************)
(* The engine (src/engine.rs) over fjall's optimistic transactions.        *)
(*                                                                         *)
(* write_tx takes a snapshot; a get inside the transaction reads the       *)
(* snapshot and marks the key as read; insert and remove are buffered;     *)
(* commit fails with a conflict when a transaction that committed after    *)
(* the snapshot wrote a key this one read, and otherwise applies the       *)
(* buffer.  Other callers can run between a method's write_tx and its      *)
(* commit, so create_document and delete_document take two steps.          *)
(* Failures of the storage itself (EngineError::Storage) are not modelled. *)
(***************************************************************************)
Callers == {"t1", "t2"}

\* the ids callers pass: valid ones and invalid ones
CollectionIds == {<<99>>, <<>>, <<99, SLASH>>}
DocIds == {<<120>>, <<121>>, <<120, SEPARATOR>>}
Data == {<<>>, <<1>>}

\* a map with key k set to v
Insert(m, k, v) == [x \in DOMAIN m \cup {k} |-> IF x = k THEN v ELSE m[x]]

\* a map without key k
Remove(m, k) == [x \in DOMAIN m \ {k} |-> m[x]]

\* the call and what it returned
Returned(t, op, c, d, res) ==
  [caller |-> t, op |-> op, coll |-> c, doc |-> d, res |-> res]

\* EngineError::InvalidKey(e)
InvalidKey(e) == [err |-> "InvalidKey", key_error |-> e]

\* create_document without the existence check
create_exists_never(snapshot, key) == FALSE

\* the existence check of create_document on the transaction's snapshot
create_exists(snapshot, key) == key \in DOMAIN snapshot

\* Engine::create_document up to the commit
create_document(t, c, d, data) ==
  /\ tx[t].pc = "idle"
  /\ LET k == encode(c, d)
     IN  IF k.err # NoKeyError
         THEN /\ last' = Returned(t, "create", c, d, InvalidKey(k))
              /\ UNCHANGED <<store, tx, created>>
         ELSE IF create_exists(store, k.key)
              THEN /\ last' = Returned(t, "create", c, d, [err |-> "AlreadyExists"])
                   /\ UNCHANGED <<store, tx, created>>
              ELSE /\ tx' = [tx EXCEPT ![t] =
                               [pc |-> "open", op |-> "create", coll |-> c,
                                doc |-> d, key |-> k.key, data |-> data,
                                conflict |-> FALSE]]
                   /\ UNCHANGED <<store, last, created>>
  /\ UNCHANGED <<lexvars, keysvars>>

\* delete_document without the existence check
delete_exists_always(snapshot, key) == TRUE

\* the existence check of delete_document on the transaction's snapshot
delete_exists(snapshot, key) == key \in DOMAIN snapshot

\* Engine::delete_document up to the commit
delete_document(t, c, d) ==
  /\ tx[t].pc = "idle"
  /\ LET k == encode(c, d)
     IN  IF k.err # NoKeyError
         THEN /\ last' = Returned(t, "delete", c, d, InvalidKey(k))
              /\ UNCHANGED <<store, tx, created>>
         ELSE IF ~delete_exists(store, k.key)
              THEN /\ last' = Returned(t, "delete", c, d, [err |-> "NotFound"])
                   /\ UNCHANGED <<store, tx, created>>
              ELSE /\ tx' = [tx EXCEPT ![t] =
                               [pc |-> "open", op |-> "delete", coll |-> c,
                                doc |-> d, key |-> k.key, conflict |-> FALSE]]
                   /\ UNCHANGED <<store, last, created>>
  /\ UNCHANGED <<lexvars, keysvars>>

\* apply_write with a remove that removes nothing
apply_write_no_remove(m, w) ==
  IF w.op = "create" THEN Insert(m, w.key, w.data) ELSE m

\* the buffered write of an open transaction applied to the keyspace
apply_write(m, w) ==
  IF w.op = "create" THEN Insert(m, w.key, w.data) ELSE Remove(m, w.key)

\* the transactions that a commit of key makes stale: those that read it
mark_conflicts(txs, t, key) ==
  [u \in Callers |->
     IF u # t /\ txs[u].pc = "open" /\ txs[u].key = key
     THEN [txs[u] EXCEPT !.conflict = TRUE]
     ELSE txs[u]]

\* commit that starts the transaction over after a conflict
commit_retries(t) ==
  /\ tx[t].pc = "open"
  /\ IF tx[t].conflict
     THEN /\ tx' = [tx EXCEPT ![t].conflict = FALSE]
          /\ UNCHANGED <<store, last, created>>
     ELSE /\ store' = apply_write(store, tx[t])
          /\ created' = IF tx[t].op = "create"
                        THEN Insert(created, tx[t].key, tx[t].data)
                        ELSE Remove(created, tx[t].key)
          /\ tx' = [mark_conflicts(tx, t, tx[t].key) EXCEPT ![t] = [pc |-> "idle"]]
          /\ last' = Returned(t, tx[t].op, tx[t].coll, tx[t].doc, [err |-> "Ok"])
  /\ UNCHANGED <<lexvars, keysvars>>

\* wtx.commit() and the return of create_document or delete_document
commit(t) ==
  /\ tx[t].pc = "open"
  /\ IF tx[t].conflict
     THEN /\ last' = Returned(t, tx[t].op, tx[t].coll, tx[t].doc,
                              [err |-> "TransactionConflict"])
          /\ tx' = [tx EXCEPT ![t] = [pc |-> "idle"]]
          /\ UNCHANGED <<store, created>>
     ELSE /\ store' = apply_write(store, tx[t])
          /\ created' = IF tx[t].op = "create"
                        THEN Insert(created, tx[t].key, tx[t].data)
                        ELSE Remove(created, tx[t].key)
          /\ tx' = [mark_conflicts(tx, t, tx[t].key) EXCEPT ![t] = [pc |-> "idle"]]
          /\ last' = Returned(t, tx[t].op, tx[t].coll, tx[t].doc, [err |-> "Ok"])
  /\ UNCHANGED <<lexvars, keysvars>>

\* get_result that looks the ids up without validating them
get_result_unvalidated(m, c, d) ==
  LET key == c \o <<SEPARATOR>> \o d
  IN  IF key \in DOMAIN m
      THEN [err |-> "Ok", data |-> m[key]]
      ELSE [err |-> "NotFound"]

\* the result of Engine::get_document on the keyspace m
get_result(m, c, d) ==
  LET k == encode(c, d)
  IN  IF k.err # NoKeyError THEN InvalidKey(k)
      ELSE IF k.key \in DOMAIN m
           THEN [err |-> "Ok", data |-> m[k.key]]
           ELSE [err |-> "NotFound"]

\* Engine::get_document
get_document(t, c, d) ==
  /\ tx[t].pc = "idle"
  /\ last' = Returned(t, "get", c, d, get_result(store, c, d))
  /\ UNCHANGED <<store, tx, created>>
  /\ UNCHANGED <<lexvars, keysvars>>

EngineInit ==
  /\ EngineIdle
  /\ KeysIdle
  /\ input = <<>>
  /\ iter = <<>>
  /\ line = 1
  /\ col = 1
  /\ out = <<>>
  /\ ended = FALSE

Create == \E t \in Callers, c \in CollectionIds, d \in DocIds, data \in Data :
            create_document(t, c, d, data)

Delete == \E t \in Callers, c \in CollectionIds, d \in DocIds :
            delete_document(t, c, d)

Commit == \E t \in Callers : commit(t)

Get == \E t \in Callers, c \in CollectionIds, d \in DocIds :
         get_document(t, c, d)

EngineNext == Create \/ Delete \/ Commit \/ Get

EngineSpec == EngineInit /\ [][EngineNext]_vars

(***************************************************************************)
(* The engine called with ids of every kind of KeyError, ids longer than   *)
(* MAX_ID_LENGTH among them, next to one valid pair of ids.                *)
(***************************************************************************)
\* an id one byte longer than the longest valid id
TooLongId == Repeat(97, MAX_ID_LENGTH + 1)

\* the pairs (collection id, document id) callers pass
KeyCases ==
  {<<<<99>>, <<120>>>>,
   <<<<>>, <<120>>>>, <<<<99>>, <<>>>>,
   <<<<99, SLASH>>, <<120>>>>, <<<<99>>, <<120, SEPARATOR>>>>,
   <<TooLongId, <<120>>>>, <<<<99>>, TooLongId>>}

CreateCase == \E t \in Callers, p \in KeyCases, data \in Data :
                create_document(t, p[1], p[2], data)

DeleteCase == \E t \in Callers, p \in KeyCases :
                delete_document(t, p[1], p[2])

GetCase == \E t \in Callers, p \in KeyCases :
             get_document(t, p[1], p[2])

InvalidKeyNext == CreateCase \/ DeleteCase \/ Commit \/ GetCase

InvalidKeySpec == EngineInit /\ [][InvalidKeyNext]_vars

(***************************************************************************)
(* Properties of the lexer, checked under LexSpec                          *)
(***************************************************************************)
\* the 1-based line of the i-th character of text
LineOf(text, i) == 1 + Cardinality({j \in 1..(i - 1) : text[j] = NL})

\* the 1-based column of the i-th character of text
ColOf(text, i) ==
  LET nls == {j \in 1..(i - 1) : text[j] = NL}
      lastnl == IF nls = {} THEN 0 ELSE CHOOSE j \in nls : \A k \in nls : k <= j
  IN  i - lastnl

\* the length of the run of ASCII digits of s that starts at index i
DigitRun(s, i) ==
  CHOOSE n \in 0..Len(s) :
    /\ i + n - 1 <= Len(s)
    /\ \A j \in i..(i + n - 1) : s[j] \in AsciiDigit
    /\ i + n > Len(s) \/ s[i + n] \notin AsciiDigit

\* the index of the first occurrence of c in s at or after index i, or 0
IndexFrom(s, c, i) ==
  LET at == {j \in i..Len(s) : s[j] = c}
  IN  IF at = {} THEN 0 ELSE CHOOSE j \in at : \A k \in at : j <= k

\* the characters of s from index i on
From(s, i) == SubSeq(s, i, Len(s))

\* this step of next yields item and leaves exactly the text `rest` unread
Yields(item, rest) == out' = Append(out, item) /\ iter' = rest

\* the number of characters consumed so far
Consumed == Len(input) - Len(iter)

IsError(item) == item.tag = "LexError"
HasPosition(item) == {"line", "col"} \subseteq DOMAIN item

\* C1 (as claimed): iterating a Lexer yields at most one LexError, and once a
\* LexError has been yielded nothing more is yielded: an error can only be
\* the last item of the output.
C1_ErrorIsLast ==
  \A i \in 1..Len(out) : IsError(out[i]) => i = Len(out)

PositionedMsgs ==
  {"unexpected character", "unexpected character (did you mean '!='?)"}

ErrorPositionStep ==
  \A e \in {out'[j] : j \in (Len(out) + 1)..Len(out')} :
     IsError(e) =>
       IF e.msg \in PositionedMsgs
       THEN /\ HasPosition(e)
            /\ e.ch = input[Consumed']
            /\ e.line = LineOf(input, Consumed')
            /\ e.col = ColOf(input, Consumed')
       ELSE ~HasPosition(e)

AtNumber ==
  /\ ~ended
  /\ iter # <<>>
  /\ \/ Head(iter) \in AsciiDigit
     \/ Head(iter) = "-" /\ Len(iter) >= 2 /\ iter[2] \in AsciiDigit

NumberDotStep ==
  /\ AtNumber =>
      (LET first == IF Head(iter) = "-" THEN 2 ELSE 1
           dot == first + DigitRun(iter, first)
       IN  IF dot <= Len(iter) /\ iter[dot] = "."
           THEN IF dot < Len(iter) /\ iter[dot + 1] \in AsciiDigit
                THEN LET end == dot + DigitRun(iter, dot + 1)
                     IN  Yields(Text("Number", SubSeq(iter, 1, end)),
                                From(iter, end + 1))
                ELSE Yields(Text("Number", SubSeq(iter, 1, dot - 1)),
                            From(iter, dot))
           ELSE TRUE)
  /\ (~ended /\ iter # <<>> /\ Head(iter) = ".") =>
        Yields(Punct("Dot"), Tail(iter))
  /\ (ended' /\ input = <<"1","0",".","f","i","e","l","d">>) =>
        out' = <<Text("Number", <<"1","0">>), Punct("Dot"),
                 Text("Ident", <<"f","i","e","l","d">>)>>
  /\ (ended' /\ input = <<"1","0",".","5">>) =>
        out' = <<Text("Number", <<"1","0",".","5">>)>>

\* C3: when the digits of a number are followed by `.`, the `.` and the
\* digits after it are part of the Number token exactly if a digit follows
\* the `.`; otherwise the Number ends before the `.`, which is then yielded
\* as a Dot token.  `10.field` yields Number("10"), Dot, Ident("field") and
\* `10.5` yields Number("10.5").
C3_DotNeedsDigit == [][NumberDotStep]_vars

\* C3 witness: `10.field` lexed to the end.
C3_Witness ==
  /\ input = <<"1","0",".","f","i","e","l","d">>
  /\ ended
  /\ Len(out) = 3 /\ out[2] = Punct("Dot")

\* the indexes of the `-` characters of text that a digit follows
MinusDigitAt(text) ==
  {i \in 1..(Len(text) - 1) : text[i] = "-" /\ text[i + 1] \in AsciiDigit}

\* the indexes of the `-` characters of text that no digit follows
MinusOtherAt(text) ==
  {i \in 1..Len(text) :
     text[i] = "-" /\ (i = Len(text) \/ text[i + 1] \notin AsciiDigit)}

NegativeNumbers(items) ==
  {i \in 1..Len(items) :
     /\ items[i].tag = "Token"
     /\ items[i].type = "Number"
     /\ Head(items[i].text) = "-"}

Minuses(items) == {i \in 1..Len(items) : items[i] = Punct("Minus")}

HasComment(text) ==
  \E i \in 1..(Len(text) - 1) : text[i] = "-" /\ text[i + 1] = "-"

\* texts of digits, `.`, `-`, letters, spaces and newlines: every `-` in
\* them is outside string literals and quoted identifiers
PlainText == \A i \in 1..Len(input) : input[i] \in NumSigma

\* C4 (as claimed): every `-` that a digit follows is folded into a negative
\* Number token, whatever precedes it.
C4_EveryMinusDigitFolds ==
  (PlainText /\ ended) =>
    Cardinality(NegativeNumbers(out)) = Cardinality(MinusDigitAt(input))

MinusStep ==
  /\ (~ended /\ iter # <<>> /\ Head(iter) = "-") =>
     (CASE Len(iter) >= 2 /\ iter[2] \in AsciiDigit ->
             /\ Len(out') = Len(out) + 1
             /\ Len(out') \in NegativeNumbers(out')
             /\ out'[Len(out')].text \o iter' = iter
        [] Len(iter) >= 2 /\ iter[2] = "-" ->
             LET nl == IndexFrom(iter, NL, 3)
             IN  IF nl = 0
                 THEN out' = out /\ ended' /\ iter' = <<>>
                 ELSE Len(iter') <= Len(iter) - nl
        [] OTHER -> Yields(Punct("Minus"), Tail(iter)))
  /\ (ended' /\ PlainText /\ ~HasComment(input)) =>
        (/\ Cardinality(NegativeNumbers(out')) = Cardinality(MinusDigitAt(input))
         /\ Cardinality(Minuses(out')) = Cardinality(MinusOtherAt(input)))
  /\ (ended' /\ input = <<"a","-","1">>) =>
        out' = <<Text("Ident", <<"a">>), Text("Number", <<"-","1">>)>>
  /\ (ended' /\ input = <<"a",SP,"-",SP,"1">>) =>
        out' = <<Text("Ident", <<"a">>), Punct("Minus"),
                 Text("Number", <<"1">>)>>

\* C4 (amended): a `-` at which a token starts is folded into a negative
\* Number token when a digit follows it, whatever token precedes it, and is
\* a Minus token otherwise; a `-` followed by a second `-` starts no token
\* but a comment that runs to the end of the line, also when a digit follows
\* the second `-`.  `a-1` yields
\* Ident("a"), Number("-1") and `a - 1` yields Ident("a"), Minus, Number("1").
C4_TokenStartMinus == [][MinusStep]_vars

\* C4 witness: `1-1 -` lexed to the end, a folded `-` after a Number and a
\* Minus.
C4_Witness ==
  /\ input = <<"1","-","1",SP,"-">>
  /\ ended
  /\ out = <<Text("Number", <<"1">>), Text("Number", <<"-","1">>),
             Punct("Minus")>>

QuotedIdentStep ==
  /\ (~ended /\ iter # <<>> /\ Head(iter) = BT) =>
      (LET close == IndexFrom(iter, BT, 2)
       IN  IF close > 2
           THEN Yields(Text("Ident", SubSeq(iter, 2, close - 1)),
                       From(iter, close + 1))
           ELSE TRUE)
  /\ \A k \in Keyword :
       (ended' /\ input = <<BT>> \o KeywordDisplay(k) \o <<BT>>) =>
          out' = <<Text("Ident", KeywordDisplay(k))>>

\* C5: a backtick-quoted lexeme with non-empty content yields Ident with
\* the content taken verbatim, never a Keyword, also when the content is one
\* of the 22 reserved spellings.
C5_QuotedIsIdent == [][QuotedIdentStep]_vars

\* C5 witness: `where` in backticks lexed to the end.
C5_Witness ==
  /\ input = <<BT, "w","h","e","r","e", BT>>
  /\ ended
  /\ out = <<Text("Ident", <<"w","h","e","r","e">>)>>

\* C6: for every punctuation, operator and Keyword token t, lexing the text
\* Display renders for t yields exactly the one token t.
C6_RenderRelex ==
  \A t \in PunctTokens \cup KeywordTokens :
    input = TokenDisplay(t) =>
      /\ out \in {<<>>, <<t>>}
      /\ (ended => out = <<t>>)

\* C6 witness: the rendering of Keyword(ContainsAny) lexed to the end.
C6_Witness ==
  /\ input = TokenDisplay(KeywordToken("ContainsAny"))
  /\ ended
  /\ out = <<KeywordToken("ContainsAny")>>

BangStep ==
  /\ (~ended /\ iter # <<>> /\ Head(iter) = "!") =>
     (IF Len(iter) >= 2 /\ iter[2] = "="
      THEN Yields(Punct("NotEqual"), From(iter, 3))
      ELSE /\ Len(out') = Len(out) + 1
           /\ IsError(out'[Len(out')])
           /\ iter' = Tail(iter))
  /\ (ended' /\ input = <<"!">>) => (Len(out') = 1 /\ IsError(out'[1]))
  /\ (ended' /\ input = <<"!", "=">>) => out' = <<Punct("NotEqual")>>

\* C7: a `!` not immediately followed by `=` yields a LexError and no token;
\* `!=` yields the single token NotEqual.
C7_BangNeedsEqual == [][BangStep]_vars

\* C7 witness: `!a` lexed: the error for the `!`, then the identifier.
C7_Witness ==
  /\ input = <<"!", "a">>
  /\ Len(out) >= 1 /\ IsError(out[1]) /\ out[1].ch = "!"

(***************************************************************************)
(* Properties of the engine, checked under EngineSpec                      *)
(***************************************************************************)
ValidIds(c, d) == encode(c, d).err = NoKeyError

\* the document stored under (c, d), for valid ids
Stored(m, c, d) == encode(c, d).key \in DOMAIN m

\* what the history says get_document(c, d) returns
ExpectedGet(c, d) ==
  IF encode(c, d).key \in DOMAIN created
  THEN [err |-> "Ok", data |-> created[encode(c, d).key]]
  ELSE [err |-> "NotFound"]

AlreadyExistsStep ==
  \A t \in Callers, c \in CollectionIds, d \in DocIds, data \in Data :
    (ValidIds(c, d) /\ Stored(store, c, d) /\ create_document(t, c, d, data)) =>
      /\ last' = Returned(t, "create", c, d, [err |-> "AlreadyExists"])
      /\ store' = store

\* C8: create_document on a (collection, doc_id) that already holds a
\* document returns AlreadyExists and leaves the stored bytes of that
\* document and of every other document unchanged.
C8_CreateExisting == [][AlreadyExistsStep]_vars

\* C8 witness: a create of a stored document has returned AlreadyExists
\* while another document is stored too.
C8_Witness ==
  /\ last = Returned("t1", "create", <<99>>, <<120>>, [err |-> "AlreadyExists"])
  /\ Stored(store, <<99>>, <<120>>)
  /\ Stored(store, <<99>>, <<121>>)

GetStep ==
  /\ \A t \in Callers, c \in CollectionIds, d \in DocIds :
       (ValidIds(c, d) /\ get_document(t, c, d)) =>
         /\ last'.res = ExpectedGet(c, d)
         /\ store' = store
  /\ \A c \in CollectionIds, d \in DocIds :
       ValidIds(c, d) => get_result(store', c, d) = ExpectedGet(c, d)'

\* C9: after any sequence of engine operations get_document(c, d) returns
\* Ok with the bytes of the latest successful create of (c, d) that no
\* successful delete of (c, d) has followed, and NotFound when there is no
\* such create; get_document does not change the store.
C9_GetLatestCreate == [][GetStep]_vars

\* C9 witness: a document was created, deleted and created again with other
\* bytes, and get_document has returned the later bytes.
C9_Witness ==
  /\ last = Returned("t2", "get", <<99>>, <<121>>, [err |-> "Ok", data |-> <<>>])
  /\ Stored(created, <<99>>, <<121>>)
  /\ ~Stored(created, <<99>>, <<120>>)

DeleteStep ==
  /\ \A t \in Callers, c \in CollectionIds, d \in DocIds :
       (ValidIds(c, d) /\ ~Stored(store, c, d) /\ delete_document(t, c, d)) =>
         /\ last' = Returned(t, "delete", c, d, [err |-> "NotFound"])
         /\ store' = store
  /\ \A t \in Callers :
       (tx[t].pc = "open" /\ tx[t].op = "delete" /\ commit(t)
          /\ last'.res = [err |-> "Ok"]) =>
         /\ get_result(store', tx[t].coll, tx[t].doc) = [err |-> "NotFound"]
         /\ DOMAIN store' = DOMAIN store \ {tx[t].key}
         /\ \A k \in DOMAIN store' : store'[k] = store[k]

\* C10: delete_document(c, d) returns NotFound and changes nothing when no
\* document is stored under (c, d); when it returns Ok the document is
\* removed, so that get_document(c, d) then returns NotFound, and every
\* other document is left unchanged.
C10_Delete == [][DeleteStep]_vars

\* C10 witness: a delete has returned Ok, its document is gone and another
\* document is still stored.
C10_Witness ==
  /\ last = Returned("t1", "delete", <<99>>, <<120>>, [err |-> "Ok"])
  /\ ~Stored(store, <<99>>, <<120>>)
  /\ Stored(store, <<99>>, <<121>>)

ConflictStep ==
  \A t \in Callers :
    (tx[t].pc = "open" /\ tx[t].conflict /\ commit(t)) =>
      /\ last' = Returned(t, tx[t].op, tx[t].coll, tx[t].doc,
                          [err |-> "TransactionConflict"])
      /\ store' = store
      /\ tx'[t] = [pc |-> "idle"]

\* C11: when the transaction of create_document or delete_document hits a
\* conflict at commit, the call returns TransactionConflict, its transaction
\* is closed and not run again, and the keyspace is left as it was: none of
\* the call's writes become visible.
C11_ConflictNoRetry == [][ConflictStep]_vars

\* C11 witness: t2's create has returned TransactionConflict, the document
\* stored is the one the other caller created, and t2 has no transaction open.
C11_Witness ==
  /\ last = Returned("t2", "create", <<99>>, <<120>>,
                     [err |-> "TransactionConflict"])
  /\ Stored(store, <<99>>, <<120>>)
  /\ tx["t2"] = [pc |-> "idle"]

\* both pairs of ids were encoded into keys
BothEncoded ==
  /\ kout.op = "encode"
  /\ kout.k1.err = NoKeyError
  /\ kout.k2.err = NoKeyError

\* C12: for valid ids, a bytewise smaller collection id gives a smaller key
\* whatever the document ids are, and within one collection the keys are
\* ordered as their document ids are.
C12_KeyOrder ==
  BothEncoded =>
    /\ Less(kin.c1, kin.c2) => Less(kout.k1.key, kout.k2.key)
    /\ kin.c1 = kin.c2 =>
         (Less(kout.k1.key, kout.k2.key) <=> Less(kin.d1, kin.d2))

\* C12 witness: collection "a" with document "bb" sorts before collection
\* "aa" with document "a", the first collection id being a prefix of the
\* second.
C12_Witness ==
  /\ kin = [c1 |-> <<97>>, d1 |-> <<98, 98>>, c2 |-> <<97, 97>>, d2 |-> <<97>>]
  /\ BothEncoded
  /\ Less(kout.k1.key, kout.k2.key)

\* C13: decoding the key of two valid ids gives back exactly these two ids,
\* and two pairs of valid ids with the same key are the same pair.
C13_DecodeEncode ==
  /\ kout.op = "decode" =>
       kout.pair = [some |-> TRUE, collection_id |-> kin.c1, doc_id |-> kin.d1]
  /\ (BothEncoded /\ kout.k1.key = kout.k2.key) =>
       (kin.c1 = kin.c2 /\ kin.d1 = kin.d2)

\* C13 witness: the key of ("ab", "b") was decoded into ("ab", "b").
C13_Witness ==
  /\ kout.op = "decode"
  /\ kin.c1 = <<97, 98>>
  /\ kin.d1 = <<98>>
  /\ kout.pair = [some |-> TRUE, collection_id |-> <<97, 98>>, doc_id |-> <<98>>]

\* the four ways an id is invalid, in the order they are reported
IdFaults(id) ==
  <<Len(id) = 0,
    \E i \in 1..Len(id) : id[i] = 0,
    \E i \in 1..Len(id) : id[i] = 47,
    Len(id) > 1500>>

IdFaultNames == <<"EmptyId", "ContainsNullByte", "ContainsSlash", "TooLong">>

\* the error expected of an id: that of its first fault, if it has one
ExpectedFault(id) ==
  LET n == {i \in 1..4 : IdFaults(id)[i]}
      first == CHOOSE i \in n : \A j \in n : i <= j
  IN  IF n = {} THEN "Ok" ELSE IdFaultNames[first]

\* C14: encode fails exactly when an id is empty, has a null byte, has a
\* slash or is longer than 1500 bytes; the collection id is checked before
\* the document id, and of several faults of one id the first of empty,
\* null byte, slash, length is the one reported; an id of exactly 1500 bytes
\* is accepted.
C14_ValidationOrder ==
  kout.op = "encode" =>
    LET bad == IF ExpectedFault(kin.c1) # "Ok" THEN ExpectedFault(kin.c1)
               ELSE ExpectedFault(kin.d1)
    IN  /\ kout.k1.err = bad
        /\ bad = "Ok" => kout.k1.key = kin.c1 \o <<0>> \o kin.d1
        /\ bad = "TooLong" => kout.k1.max = 1500

\* C14 witness: a valid collection id with a document id of 1501 bytes that
\* ends in a slash is refused for the slash, not for its length.
C14_Witness ==
  /\ kout.op = "encode"
  /\ kin.c1 = <<97>>
  /\ kin.d1 = EndingIn(SLASH, MAX_ID_LENGTH + 1)
  /\ kout.k1 = [err |-> "ContainsSlash"]

\* C15: the key of (c', d) starts with the prefix of collection c exactly
\* when c' = c, for valid ids.
C15_PrefixIsolation ==
  (kout.op = "prefix" /\ kout.prefix.err = NoKeyError
     /\ kout.k2.err = NoKeyError) =>
    (starts_with(kout.k2.key, kout.prefix.prefix) <=> kin.c2 = kin.c1)

\* C15 witness: the key of a document of collection "aa" does not start
\* with the prefix of collection "a".
C15_Witness ==
  /\ kout.op = "prefix"
  /\ kin.c1 = <<97>>
  /\ kin.c2 = <<97, 97>>
  /\ kout.prefix = [err |-> NoKeyError, prefix |-> <<97, 0>>]
  /\ kout.k2.err = NoKeyError
  /\ ~starts_with(kout.k2.key, kout.prefix.prefix)

(***************************************************************************)
(* Further properties of the lexer, checked under LexSpec                  *)
(***************************************************************************)
\* the length of the longest prefix of s, at least one character long, whose
\* characters after the first are all in the set `chars`
RunLen(s, chars) ==
  CHOOSE n \in 1..Len(s) :
    /\ \A j \in 2..n : s[j] \in chars
    /\ n = Len(s) \/ s[n + 1] \notin chars

\* this step of next yields exactly one item and leaves `rest` unread
YieldsOne(rest) ==
  /\ Len(out') = Len(out) + 1
  /\ SubSeq(out', 1, Len(out)) = out
  /\ iter' = rest

\* the item this step of next yields
Yielded == out'[Len(out')]

\* the 22 reserved spellings
ReservedSpellings ==
  {<<"a","n","d">>, <<"o","r">>, <<"n","o","t">>, <<"i","n">>,
   <<"b","e","t","w","e","e","n">>, <<"l","i","k","e">>,
   <<"r","e","g","e","x">>, <<"i","s">>, <<"e","x","i","s","t","s">>,
   <<"c","o","n","t","a","i","n","s">>,
   <<"c","o","n","t","a","i","n","s","A","n","y">>,
   <<"c","o","n","t","a","i","n","s","A","l","l">>,
   <<"w","h","e","r","e">>, <<"o","r","d","e","r">>, <<"s","k","i","p">>,
   <<"l","i","m","i","t">>, <<"r","e","t","u","r","n","i","n","g">>,
   <<"a","s","c">>, <<"d","e","s","c">>, <<"t","r","u","e">>,
   <<"f","a","l","s","e">>, <<"n","u","l","l">>}

IdentStep ==
  (~ended /\ iter # <<>> /\ Head(iter) \in Alphabetic \cup {"_"}) =>
    (LET n == RunLen(iter, Alphanumeric \cup {"_"})
         word == SubSeq(iter, 1, n)
     IN  /\ YieldsOne(From(iter, n + 1))
         /\ IF word \in ReservedSpellings
            THEN /\ Yielded.tag = "Token"
                 /\ Yielded.type = "Keyword"
                 /\ KeywordDisplay(Yielded.kw) = word
            ELSE Yielded = Text("Ident", word))

\* C16: an unquoted word (a letter or `_`, then letters, digits and `_`)
\* yields Keyword(k) exactly when it is, case-sensitively, one of the 22
\* reserved spellings, k being the keyword so spelt; every other word
\* yields Ident with the word as its text.
C16_KeywordExact == [][IdentStep]_vars

\* C16 witness: `order_by` lexed to the end as one identifier.
C16_Witness ==
  /\ input = <<"o","r","d","e","r","_","b","y">>
  /\ ended
  /\ out = <<Text("Ident", <<"o","r","d","e","r","_","b","y">>)>>

\* the character each accepted escape stands for
EscapeTable ==
  (DQ :> DQ) @@ (BS :> BS) @@ ("n" :> NL) @@ ("t" :> TAB) @@ ("r" :> CR)

RECURSIVE Literal(_, _)
\* the string literal whose content starts at index i of s: its decoded
\* text and the index after its closing quote, or an error when an escape
\* is not one of the five or the text ends before the closing quote
Literal(s, i) ==
  IF i > Len(s) THEN [ok |-> FALSE]
  ELSE IF s[i] = DQ THEN [ok |-> TRUE, text |-> <<>>, after |-> i + 1]
  ELSE IF s[i] = BS
  THEN IF i = Len(s) \/ s[i + 1] \notin DOMAIN EscapeTable
       THEN [ok |-> FALSE]
       ELSE LET r == Literal(s, i + 2)
            IN  IF r.ok
                THEN [r EXCEPT !.text = <<EscapeTable[s[i + 1]]>> \o r.text]
                ELSE r
  ELSE LET r == Literal(s, i + 1)
       IN  IF r.ok THEN [r EXCEPT !.text = <<s[i]>> \o r.text] ELSE r

StringStep ==
  (~ended /\ iter # <<>> /\ Head(iter) = DQ) =>
    (LET lit == Literal(iter, 2)
     IN  /\ Len(out') = Len(out) + 1
         /\ SubSeq(out', 1, Len(out)) = out
         /\ IF lit.ok
            THEN /\ Yielded = Text("String", lit.text)
                 /\ iter' = From(iter, lit.after)
            ELSE IsError(Yielded))

\* C17: a double-quoted literal yields String with the escapes \" \\ \n \t
\* \r decoded to the character each stands for and every other character
\* taken as it is; a literal with any other escape, or one the text ends
\* before closing, yields a LexError and no String token.
C17_StringEscapes == [][StringStep]_vars

\* C17 witness: the literal "\n" lexed to the string of one newline, and
\* then the unterminated literal after it to an error.
C17_Witness ==
  /\ input = <<DQ, BS, "n", DQ, DQ>>
  /\ Len(out) = 2
  /\ out[1] = Text("String", <<NL>>)
  /\ IsError(out[2])

RECURSIVE Skipped(_, _)
\* the index of the first character of s at or after index i that is
\* neither whitespace nor part of a `--` comment (which runs up to the next
\* newline or the end of s); Len(s) + 1 when there is none
Skipped(s, i) ==
  IF i > Len(s) THEN i
  ELSE IF s[i] \in {SP, NL, TAB, CR} THEN Skipped(s, i + 1)
  ELSE IF s[i] = "-" /\ i < Len(s) /\ s[i + 1] = "-"
  THEN LET nl == IndexFrom(s, NL, i + 2)
       IN  IF nl = 0 THEN Len(s) + 1 ELSE Skipped(s, nl)
  ELSE i

SkipStep ==
  ~ended =>
    (LET p == Skipped(iter, 1)
         at == Consumed + p
     IN  /\ p > Len(iter) => (out' = out /\ ended')
         /\ p <= Len(iter) =>
              /\ Len(out') = Len(out) + 1
              /\ SubSeq(out', 1, Len(out)) = out
              /\ Len(iter') <= Len(iter) - p
         /\ (p <= Len(iter) /\ iter[p] \in Stray) =>
              /\ iter' = From(iter, p + 1)
              /\ Yielded = LexErrorAt("unexpected character", iter[p],
                                      LineOf(input, at), ColOf(input, at))
              /\ Yielded.col >= 1
         /\ line' = LineOf(input, Len(input) - Len(iter') + 1)
         /\ col' = ColOf(input, Len(input) - Len(iter') + 1)
         /\ col' >= 1)

\* C18: whitespace and `--` comments ahead of a token yield nothing (text
\* that is only whitespace and comments ends the iteration with no item);
\* after every call the line and column counters are the 1-based line and
\* column of the next unread character of the original text; an unexpected
\* character after skipped text is reported with its own 1-based line and
\* column, which is at least 1.
C18_SkippedTextCounted == [][SkipStep]_vars

\* C18 witness: a comment, a newline and two spaces, then `@`, reported at
\* line 2, column 3.
C18_Witness ==
  /\ input = <<"-","-",SP,"a",NL,SP,SP,"@","!">>
  /\ Len(out) = 1
  /\ out[1] = LexErrorAt("unexpected character", "@", 2, 3)
  /\ line = 2
  /\ col = 4

\* the length of the longest prefix of s whose characters are all in `chars`
PrefixLen(s, chars) ==
  CHOOSE n \in 0..Len(s) :
    /\ \A j \in 1..n : s[j] \in chars
    /\ n = Len(s) \/ s[n + 1] \notin chars

\* this step of next yields exactly one item, and it is a LexError
YieldsError ==
  /\ Len(out') = Len(out) + 1
  /\ SubSeq(out', 1, Len(out)) = out
  /\ IsError(Yielded)

ParentRefStep ==
  (~ended /\ iter # <<>> /\ Head(iter) = "^") =>
    (LET two == Len(iter) >= 2 /\ iter[2] = "^"
         rest == From(iter, IF two THEN 3 ELSE 2)
         n == PrefixLen(rest, Alphanumeric \cup {"_", "."})
     IN  IF n = 0 THEN YieldsError
         ELSE /\ YieldsOne(From(rest, n + 1))
              /\ Yielded = Text(IF two THEN "GrandparentRef" ELSE "ParentRef",
                                SubSeq(rest, 1, n)))

\* C19: `^` and then a path yields ParentRef(path), `^^` and then a path
\* yields GrandparentRef(path), the path being the longest run of
\* alphanumeric, `_` and `.` characters that follows; a `^` or `^^` that no
\* such character follows yields a LexError.
C19_ParentRefs == [][ParentRefStep]_vars

\* C19 witness: `^a.b1 ^^_c` lexed to a parent and a grandparent reference.
C19_Witness ==
  /\ input = <<"^","a",".","b","1",SP,"^","^","_","c">>
  /\ ended
  /\ out = <<Text("ParentRef", <<"a",".","b","1">>),
             Text("GrandparentRef", <<"_","c">>)>>

VariableStep ==
  (~ended /\ iter # <<>> /\ Head(iter) = "$") =>
    (LET n == PrefixLen(Tail(iter), Alphanumeric \cup {"_"})
     IN  IF n = 0 THEN YieldsError
         ELSE /\ YieldsOne(From(iter, n + 2))
              /\ Yielded = Text("Variable", SubSeq(iter, 2, n + 1)))

\* C20: `$` and then one or more alphanumeric or `_` characters yields
\* Variable(name), the name being the longest such run; a `$` that another
\* character or the end of the text follows yields a LexError.
C20_Variables == [][VariableStep]_vars

\* C20 witness: `$x_1,$` lexed to a variable, a comma and the error for the
\* `$` at the end of the text.
C20_Witness ==
  /\ input = <<"$","x","_","1",",","$">>
  /\ Len(out) = 3
  /\ out[1] = Text("Variable", <<"x","_","1">>)
  /\ out[2] = Punct("Comma")
  /\ IsError(out[3])

\* the two-character operators, by their two characters
TwoCharOperator ==
  (<<":", ":">> :> "ColonColon") @@ (<<">", "=">> :> "GreaterThanOrEqual")
    @@ (<<"<", "=">> :> "LessThanOrEqual") @@ (<<"!", "=">> :> "NotEqual")

\* the one-character tokens that a second character can extend
OneCharOperator ==
  (":" :> "Colon") @@ (">" :> "GreaterThan") @@ ("<" :> "LessThan")

OperatorStep ==
  /\ ~ended =>
       (LET p == Skipped(iter, 1)
        IN  (p <= Len(iter) /\ iter[p] \in {":", ">", "<", "!"}) =>
              (IF p < Len(iter) /\ <<iter[p], iter[p + 1]>> \in DOMAIN TwoCharOperator
               THEN /\ YieldsOne(From(iter, p + 2))
                    /\ Yielded = Punct(TwoCharOperator[<<iter[p], iter[p + 1]>>])
               ELSE IF iter[p] = "!" THEN YieldsError
               ELSE /\ YieldsOne(From(iter, p + 1))
                    /\ Yielded = Punct(OneCharOperator[iter[p]])))
  /\ (ended' /\ input = <<">", "=", "=">>) =>
       out' = <<Punct("GreaterThanOrEqual"), Punct("Equal")>>
  /\ (ended' /\ input = <<":", ":", ":">>) =>
       out' = <<Punct("ColonColon"), Punct("Colon")>>

\* C21: at a token start, the two characters of `::`, `>=`, `<=` or `!=`
\* next to each other yield the two-character token; Colon, GreaterThan and
\* LessThan are yielded only when the character after them does not make a
\* two-character form; `>==` gives GreaterThanOrEqual then Equal, and `:::`
\* gives ColonColon then Colon.
C21_LongestMatch == [][OperatorStep]_vars

\* C21 witness: `<==` lexed to the end: LessThanOrEqual, then Equal.
C21_Witness ==
  /\ input = <<"<", "=", "=">>
  /\ ended
  /\ out = <<Punct("LessThanOrEqual"), Punct("Equal")>>

BacktickErrorStep ==
  ~ended =>
    (LET p == Skipped(iter, 1)
         close == IndexFrom(iter, BT, p + 1)
     IN  (p <= Len(iter) /\ iter[p] = BT) =>
           /\ close = 0 => (YieldsError /\ iter' = <<>>)
           /\ close = p + 1 => (YieldsError /\ iter' = From(iter, p + 2)))

\* C22: a backtick pair with nothing in it, and a backtick that no closing
\* backtick follows before the end of the text, each yield a LexError and
\* no Ident token.
C22_BacktickErrors == [][BacktickErrorStep]_vars

\* C22 witness: three backticks lexed: the error for the empty pair, then
\* the error for the third backtick, which nothing closes.
C22_Witness ==
  /\ input = <<BT, BT, BT>>
  /\ out = <<LexErrorMsg("empty quoted identifier"),
             LexErrorMsg("unterminated quoted identifier")>>
  /\ iter = <<>>

(***************************************************************************)
(* A property of the engine, checked under InvalidKeySpec                  *)
(***************************************************************************)
\* the KeyError expected of a pair of ids: that of the collection id if it
\* has a fault, else that of the document id; "Ok" for a valid pair
ExpectedKeyError(c, d) ==
  IF ExpectedFault(c) # "Ok" THEN ExpectedFault(c) ELSE ExpectedFault(d)

\* the pairs of ids that have a fault, and the KeyError expected of each
InvalidCases == {p \in KeyCases : ExpectedKeyError(p[1], p[2]) # "Ok"}
ExpectedErrorOf == [p \in InvalidCases |-> ExpectedKeyError(p[1], p[2])]

\* the call returned InvalidKey with the expected KeyError, with the store
\* and every caller's transaction state as they were
RefusedAsInvalid(t, op, p) ==
  /\ last'.caller = t
  /\ last'.op = op
  /\ last'.coll = p[1]
  /\ last'.doc = p[2]
  /\ last'.res.err = "InvalidKey"
  /\ last'.res.key_error.err = ExpectedErrorOf[p]
  /\ store' = store
  /\ tx' = tx

InvalidKeyStep ==
  \A t \in Callers, p \in InvalidCases :
    /\ \A data \in Data :
         create_document(t, p[1], p[2], data) => RefusedAsInvalid(t, "create", p)
    /\ delete_document(t, p[1], p[2]) => RefusedAsInvalid(t, "delete", p)
    /\ get_document(t, p[1], p[2]) => RefusedAsInvalid(t, "get", p)

\* C23: create_document, get_document and delete_document called with a
\* collection id or a document id that is empty, holds a 0x00 byte or a `/`,
\* or is longer than 1500 bytes return InvalidKey with the KeyError of the
\* first fault, open no transaction and leave the store unchanged.
C23_InvalidKeyFirst == [][InvalidKeyStep]_vars

\* C23 witness: a delete with a document id of 1501 bytes was refused as
\* too long while a document is stored and the other caller's transaction
\* is open.
C23_Witness ==
  /\ last.op = "delete"
  /\ last.caller = "t1"
  /\ last.doc = TooLongId
  /\ last.res = InvalidKey([err |-> "TooLong", len |-> MAX_ID_LENGTH + 1,
                            max |-> MAX_ID_LENGTH])
  /\ Stored(store, <<99>>, <<120>>)
  /\ tx["t2"].pc = "open"

====
